---- MODULE Spec2Model ----
(***************************************************************************)
(* A model of the SubRip text parser srt-parser-ts: the StringWalker      *)
(* cursor, the timecode codec (stringifyMsToTime / parseTimeToMs), the    *)
(* cue parser (SrtParser), the SrtSyntaxError diagnostic and the          *)
(* document operations of SubRipText.                                     *)
(*                                                                         *)
(* A JavaScript string is modelled as a sequence of one-character strings. *)
(* Positions are 0-based as in the source; sequence indices are 1-based.   *)
(***************************************************************************)
EXTENDS Integers, Sequences, FiniteSets, TLC

VARIABLES
    tcPc,       \* timecode codec: where the caller is ("fmt", "parse", ...)
    tcMs,       \* timecode codec: the number handed to stringifyMsToTime
    tcStr,      \* timecode codec: the string handed to parseTimeToMs
    tcRes,      \* timecode codec: the outcome of parseTimeToMs
    source,     \* StringWalker.source
    pos,        \* StringWalker.pos
    nodes,      \* SubRipText.nodes
    status,     \* the call in progress and how it ended
    pc,         \* SrtParser: the block of parseNode the call is at
    node,       \* SrtParser.parseNode: the node under construction
    nodeLines,  \* SrtParser.parseNode: the lines collected for the subtitle
    message,    \* SrtSyntaxError.message of the error thrown, if any
    output,     \* the string returned by SubRipText.toString
    lastOp,     \* the last document operation, its argument and pre-state
    found,      \* the sequence returned by SubRipText.getNodesAt
    mapCall     \* SubRipText.mapTime: the call in progress and its locals

vars == <<tcPc, tcMs, tcStr, tcRes, source, pos, nodes, status, pc, node,
          nodeLines, message, output, lastOp, found, mapCall>>

tcVars == <<tcPc, tcMs, tcStr, tcRes>>
parserVars == <<source, pos, status, pc, node, nodeLines, message, output>>
docVars == <<nodes, lastOp, found, mapCall>>

----------------------------------------------------------------------------
(* Characters and strings *)

NL == "\n"
SP == " "

DigitChars == <<"0", "1", "2", "3", "4", "5", "6", "7", "8", "9">>
Digit == {DigitChars[i] : i \in 1..10}
Whitespace == {SP, NL, "\t", "\r"}

DigitVal(c) == (CHOOSE i \in 1..10 : DigitChars[i] = c) - 1

\* Number.prototype.toString for a non-negative integer
RECURSIVE NatToStr(_)
NatToStr(n) ==
    IF n < 10 THEN <<DigitChars[n + 1]>>
    ELSE NatToStr(n \div 10) \o <<DigitChars[(n % 10) + 1]>>

\* Number.prototype.toString for an integer
IntToStr(n) == IF n < 0 THEN <<"-">> \o NatToStr(-n) ELSE NatToStr(n)

\* String.prototype.padStart(len, c)
RECURSIVE padStart(_, _, _)
padStart(s, len, c) ==
    IF Len(s) >= len THEN s ELSE padStart(<<c>> \o s, len, c)

\* parseInt of a string of decimal digits
RECURSIVE parseInt(_)
parseInt(ds) ==
    IF ds = <<>> THEN 0
    ELSE parseInt(SubSeq(ds, 1, Len(ds) - 1)) * 10 + DigitVal(ds[Len(ds)])

\* The first index j >= i of s that is past the end or holds a character
\* outside C: the end of the run of C-characters that starts at i.
RunEnd(s, i, C) ==
    CHOOSE j \in i..(Len(s) + 1) :
        /\ (j = Len(s) + 1 \/ s[j] \notin C)
        /\ \A k \in i..(j - 1) : s[k] \in C

\* The same for a run of characters that are not in C.
RunEndNot(s, i, C) ==
    CHOOSE j \in i..(Len(s) + 1) :
        /\ (j = Len(s) + 1 \/ s[j] \in C)
        /\ \A k \in i..(j - 1) : s[k] \notin C

\* String.prototype.split(c)
RECURSIVE split(_, _)
split(s, c) ==
    LET j == RunEndNot(s, 1, {c})
    IN  IF j > Len(s) THEN <<s>>
        ELSE <<SubSeq(s, 1, j - 1)>> \o split(SubSeq(s, j + 1, Len(s)), c)

\* Array.prototype.join(c) of an array of strings
RECURSIVE join(_, _)
join(ss, c) ==
    IF ss = <<>> THEN <<>>
    ELSE IF Len(ss) = 1 THEN ss[1]
    ELSE ss[1] \o c \o join(Tail(ss), c)

\* The result of a RegExp match: the matched text match[0], or no match.
NoMatch == [ok |-> FALSE, str |-> <<>>]
Matched(s) == [ok |-> TRUE, str |-> s]

----------------------------------------------------------------------------
(* constants.ts: RGX_TIMESTAMP = /^(-|\+|)(\d+(:\d+)+)((,|\.)(\d+))?/ *)

\* (:\d+)+ is greedy: from q, the index after a run of digits, take every
\* following ':' that is itself followed by a digit, and that digit run.
RECURSIVE ColsEnd(_, _)
ColsEnd(r, q) ==
    IF q + 1 <= Len(r) /\ r[q] = ":" /\ r[q + 1] \in Digit
    THEN ColsEnd(r, RunEnd(r, q + 1, Digit))
    ELSE q

NoTimestamp == [ok |-> FALSE, str |-> <<>>, sign |-> <<>>, cols |-> <<>>,
                hasFrac |-> FALSE, mmm |-> <<>>]

\* (:\d+){1,n}: at most n colon groups
RECURSIVE ColsEndAtMost(_, _, _)
ColsEndAtMost(r, q, n) ==
    IF n > 0 /\ q + 1 <= Len(r) /\ r[q] = ":" /\ r[q + 1] \in Digit
    THEN ColsEndAtMost(r, RunEnd(r, q + 1, Digit), n - 1)
    ELSE q

\* The pattern with (:\d+){1,2} in place of (:\d+)+: hh:mm:ss at most
RGX_TIMESTAMP_NoDays(r) ==
    LET p  == IF Len(r) >= 1 /\ r[1] \in {"-", "+"} THEN 2 ELSE 1
        d1 == RunEnd(r, p, Digit)
        ce == ColsEndAtMost(r, d1, 2)
        fr == /\ ce + 1 <= Len(r)
              /\ r[ce] \in {",", "."}
              /\ r[ce + 1] \in Digit
        fe == IF fr THEN RunEnd(r, ce + 1, Digit) ELSE ce
    IN  IF p > Len(r) \/ d1 = p \/ ce = d1 THEN NoTimestamp
        ELSE [ok |-> TRUE,
              str |-> SubSeq(r, 1, fe - 1),
              sign |-> SubSeq(r, 1, p - 1),
              cols |-> SubSeq(r, p, ce - 1),
              hasFrac |-> fr,
              mmm |-> IF fr THEN SubSeq(r, ce + 1, fe - 1) ELSE <<>>]

\* The pattern with (:\d+)* in place of (:\d+)+
RGX_TIMESTAMP_Bare(r) ==
    LET p  == IF Len(r) >= 1 /\ r[1] \in {"-", "+"} THEN 2 ELSE 1
        d1 == RunEnd(r, p, Digit)
        ce == ColsEnd(r, d1)
        fr == /\ ce + 1 <= Len(r)
              /\ r[ce] \in {",", "."}
              /\ r[ce + 1] \in Digit
        fe == IF fr THEN RunEnd(r, ce + 1, Digit) ELSE ce
    IN  IF p > Len(r) \/ d1 = p THEN NoTimestamp
        ELSE [ok |-> TRUE,
              str |-> SubSeq(r, 1, fe - 1),
              sign |-> SubSeq(r, 1, p - 1),
              cols |-> SubSeq(r, p, ce - 1),
              hasFrac |-> fr,
              mmm |-> IF fr THEN SubSeq(r, ce + 1, fe - 1) ELSE <<>>]

\* RGX_TIMESTAMP.exec(r): the whole match (str) and the groups that
\* parseTimeToMs reads: sign, cols and mmm (undefined when hasFrac is FALSE).
\* p is the index after the sign, d1 after the first digit run, ce after the
\* colon groups, fe after the fraction.
RGX_TIMESTAMP(r) ==
    LET p  == IF Len(r) >= 1 /\ r[1] \in {"-", "+"} THEN 2 ELSE 1
        d1 == RunEnd(r, p, Digit)
        ce == ColsEnd(r, d1)
        fr == /\ ce + 1 <= Len(r)
              /\ r[ce] \in {",", "."}
              /\ r[ce + 1] \in Digit
        fe == IF fr THEN RunEnd(r, ce + 1, Digit) ELSE ce
    IN  IF p > Len(r) \/ d1 = p \/ ce = d1 THEN NoTimestamp
        ELSE [ok |-> TRUE,
              str |-> SubSeq(r, 1, fe - 1),
              sign |-> SubSeq(r, 1, p - 1),
              cols |-> SubSeq(r, p, ce - 1),
              hasFrac |-> fr,
              mmm |-> IF fr THEN SubSeq(r, ce + 1, fe - 1) ELSE <<>>]

----------------------------------------------------------------------------
(* utils/index.ts: stringifyMsToTime *)

Abs(n) == IF n < 0 THEN -n ELSE n

stringifyMsToTime_NoPad(timeInMs) ==
    LET isNegative == timeInMs < 0
        absTimeInMs == Abs(timeInMs)
        hh  == padStart(NatToStr(absTimeInMs \div 3600000), 2, "0")
        mm  == NatToStr((absTimeInMs % 3600000) \div 60000)
        ss  == padStart(NatToStr((absTimeInMs % 60000) \div 1000), 2, "0")
        mmm == padStart(NatToStr(absTimeInMs % 1000), 3, "0")
    IN  (IF isNegative THEN <<"-">> ELSE <<>>)
            \o hh \o <<":">> \o mm \o <<":">> \o ss \o <<",">> \o mmm

stringifyMsToTime(timeInMs) ==
    LET isNegative == timeInMs < 0
        absTimeInMs == Abs(timeInMs)
        hh  == padStart(NatToStr(absTimeInMs \div 3600000), 2, "0")
        mm  == padStart(NatToStr((absTimeInMs % 3600000) \div 60000), 2, "0")
        ss  == padStart(NatToStr((absTimeInMs % 60000) \div 1000), 2, "0")
        mmm == padStart(NatToStr(absTimeInMs % 1000), 3, "0")
    IN  (IF isNegative THEN <<"-">> ELSE <<>>)
            \o hh \o <<":">> \o mm \o <<":">> \o ss \o <<",">> \o mmm

----------------------------------------------------------------------------
(* utils/index.ts: parseTimeToMs *)

\* str.replace(/\s/, ''): the pattern has no g flag, so only the first
\* whitespace character of the string is removed.
replaceFirstWhitespace(str) ==
    LET j == RunEndNot(str, 1, Whitespace)
    IN  IF j > Len(str) THEN str
        ELSE SubSeq(str, 1, j - 1) \o SubSeq(str, j + 1, Len(str))

\* ~~mmm: ToInt32(ToNumber(mmm)), for a string of decimal digits short
\* enough that ToNumber is exact.  The value modulo 2^32 is kept as two
\* 16-bit halves, so that no intermediate value leaves 32 bits.
Half == 65536

RECURSIVE Mod32(_)
Mod32(ds) ==
    IF ds = <<>> THEN [hi |-> 0, lo |-> 0]
    ELSE LET v  == Mod32(SubSeq(ds, 1, Len(ds) - 1))
             lo == v.lo * 10 + DigitVal(ds[Len(ds)])
         IN  [hi |-> (v.hi * 10 + lo \div Half) % Half, lo |-> lo % Half]

ToInt32(ds) ==
    LET v == Mod32(ds)
    IN  IF v.hi >= Half \div 2 THEN (v.hi - Half) * Half + v.lo
        ELSE v.hi * Half + v.lo

\* cols.split(':').map((x) => parseInt(x)).slice(-4), then unshift(0) while
\* shorter than 4
timeParts(cols) ==
    LET all == split(cols, ":")
        ps  == [i \in 1..Len(all) |-> parseInt(all[i])]
        cut == IF Len(ps) > 4 THEN SubSeq(ps, Len(ps) - 3, Len(ps)) ELSE ps
    IN  [i \in 1..(4 - Len(cut)) |-> 0] \o cut

TimeError == [ok |-> FALSE, val |-> 0]

parseTimeToMs_NoSign(str0) ==
    LET str   == replaceFirstWhitespace(str0)
        match == RGX_TIMESTAMP(str)
        parts == timeParts(match.cols)
        totalMs == parts[1] * 86400000 + parts[2] * 3600000
                     + parts[3] * 60000 + parts[4] * 1000
                     + (IF match.hasFrac THEN ToInt32(match.mmm) ELSE 0)
    IN  IF ~match.ok THEN TimeError
        ELSE [ok |-> TRUE, val |-> totalMs]

\* The outcome of parseTimeToMs(str0): ok and the number returned, or not ok
\* when it throws Error("Invalid time string").
parseTimeToMs(str0) ==
    LET str   == replaceFirstWhitespace(str0)
        match == RGX_TIMESTAMP(str)
        parts == timeParts(match.cols)
        totalMs == parts[1] * 86400000 + parts[2] * 3600000
                     + parts[3] * 60000 + parts[4] * 1000
                     + (IF match.hasFrac THEN ToInt32(match.mmm) ELSE 0)
    IN  IF ~match.ok THEN TimeError
        ELSE [ok |-> TRUE,
              val |-> IF match.sign = <<"-">> THEN -totalMs ELSE totalMs]

----------------------------------------------------------------------------
(* The timecode codec as a state machine: a caller hands a number to      *)
(* stringifyMsToTime and the string it returns to parseTimeToMs, or hands *)
(* a string of its own to parseTimeToMs.                                  *)

MaxFields == 5
MaxPad == 2
MaxJunkLen == 4

\* Numbers handed to stringifyMsToTime
MsInputs ==
    {sg * (h * 3600000 + m * 60000 + sec * 1000 + ms) :
        sg \in {1, -1}, h \in {0, 1, 23, 100, 595}, m \in {0, 7, 59},
        sec \in {0, 9, 59}, ms \in {0, 5, 612, 999}}

\* All strings over the alphabet A of length at most n
StringsUpTo(A, n) == UNION {[1..k -> A] : k \in 0..n}

FieldStrs == {<<"0">>, <<"0", "7">>, <<"1", "3">>}
FracStrs ==
    {<<>>, <<",", "5">>, <<".", "1", "2", "3">>, <<",", "0", "0", "0">>,
     <<",", "0", "6", "1", "2">>,
     <<",", "2", "1", "4", "7", "4", "8", "3", "6", "4", "9">>,
     <<".", "4", "2", "9", "4", "9", "6", "7", "3", "0", "1">>}

\* sign, one to MaxFields colon-separated digit fields, optional fraction
StructuredTimeStrings ==
    {sg \o join(fs, <<":">>) \o fr :
        sg \in {<<>>, <<"-">>, <<"+">>},
        fs \in UNION {[1..k -> FieldStrs] : k \in 1..MaxFields},
        fr \in FracStrs}

\* The strings of the repository's tests and documentation
TimeExamples ==
    {<<"0", "1", ":", "4", "6", ":", "1", "3", ",", "6", "1", "2">>,
     <<"0", "0", ":", "0", "1">>,
     <<"-", "0", "0", ":", "0", "1", ",", "0", "0", "0">>,
     <<"0", "0", ":", "0", "1", ":", "0", "1", ".", "1", "2", "3">>,
     <<"1", "2", ":", "0", "1", ":", "4", "6", ":", "1", "3", ",", "6", "1", "2">>,
     <<"4", "2", ",", "5", "6", "7">>,
     <<"i", "n", "v", "a", "l", "i", "d">>,
     <<"1">>,
     <<"1", ":">>}

PadBases ==
    {<<"0", "0", ":", "0", "1">>,
     <<"-", "0", "0", ":", "0", "1", ",", "0", "0", "0">>,
     <<"0", "1", ":", "4", "6", ":", "1", "3", ",", "6", "1", "2">>}

\* A valid timecode with up to MaxPad whitespace characters on each side
PaddedTimeStrings ==
    {lead \o base \o trail :
        lead \in StringsUpTo({SP, "\t"}, MaxPad),
        base \in PadBases,
        trail \in StringsUpTo({SP, NL}, MaxPad)}

JunkTimeStrings == StringsUpTo({"1", ":", ",", "-", SP, "x"}, MaxJunkLen)

TimeStrings ==
    StructuredTimeStrings \cup TimeExamples \cup PaddedTimeStrings
        \cup JunkTimeStrings

NoNodes == <<>>

\* new SrtNode(): every field at its default
NewNode == [id |-> 0, appear |-> 0, disappear |-> 0, subtitle |-> <<>>]
\* An argument given as a number or as a string
Num(n) == [type |-> "number", num |-> n, str |-> <<>>]
Str(str) == [type |-> "string", num |-> 0, str |-> str]

NoOp == [op |-> "none", arg |-> Num(0), pre |-> <<>>, threw |-> FALSE,
         count |-> 0]

ParserIdle ==
    /\ source = <<>>
    /\ pos = 0
    /\ status = "idle"
    /\ pc = "loop"
    /\ node = NewNode
    /\ nodeLines = <<>>
    /\ message = <<>>
    /\ output = <<>>

\* No call of mapTime is in progress
MapIdle ==
    [pc |-> "idle", sortedMappings |-> <<>>, x |-> 0, field |-> "appear",
     minId |-> 0, maxId |-> 0]

DocIdle ==
    /\ nodes = NoNodes
    /\ lastOp = NoOp
    /\ found = <<>>
    /\ mapCall = MapIdle

TimeIdle ==
    /\ tcPc = "idle"
    /\ tcMs = 0
    /\ tcStr = <<>>
    /\ tcRes = TimeError

TimeInit ==
    /\ \/ tcPc = "fmt" /\ tcMs \in MsInputs /\ tcStr = <<>>
       \/ tcPc = "parse" /\ tcMs = 0 /\ tcStr \in TimeStrings
    /\ tcRes = TimeError
    /\ ParserIdle
    /\ DocIdle

\* const s = stringifyMsToTime(ms)
CallStringify ==
    /\ tcPc = "fmt"
    /\ tcStr' = stringifyMsToTime(tcMs)
    /\ tcPc' = "formatted"
    /\ UNCHANGED <<tcMs, tcRes, parserVars, docVars>>

\* parseTimeToMs(s), of a string the caller supplies or of the string
\* stringifyMsToTime returned
CallParse ==
    /\ tcPc \in {"parse", "formatted"}
    /\ tcRes' = parseTimeToMs(tcStr)
    /\ tcPc' = IF tcPc = "formatted" THEN "roundtrip" ELSE "parsed"
    /\ UNCHANGED <<tcMs, tcStr, parserVars, docVars>>

TimeNext == CallStringify \/ CallParse

SpecTime == TimeInit /\ [][TimeNext]_vars

----------------------------------------------------------------------------
(* Properties of the timecode codec *)

AllDigits(ds) == \A i \in 1..Len(ds) : ds[i] \in Digit

\* C4: for every integer m (positive, negative or zero), also with an hour
\* field of more than two digits, parseTimeToMs(stringifyMsToTime(m))
\* returns m.
C4_RoundTrip ==
    tcPc = "roundtrip" => tcRes.ok /\ tcRes.val = tcMs

C4_Witness ==
    /\ tcPc = "roundtrip"
    /\ tcMs = -(100 * 3600000 + 7 * 60000 + 9 * 1000 + 5)
    /\ tcStr = <<"-", "1", "0", "0", ":", "0", "7", ":", "0", "9", ",",
                 "0", "0", "5">>
    /\ tcRes = [ok |-> TRUE, val |-> tcMs]

\* What C5 reads off a timecode string: the part after the sign, the colon
\* separated fields before the fraction separator, the fraction digits.
C5_Unsigned(s) == IF s # <<>> /\ s[1] \in {"-", "+"} THEN Tail(s) ELSE s
C5_SepAt(s) == RunEndNot(C5_Unsigned(s), 1, {",", "."})
C5_Fields(s) == split(SubSeq(C5_Unsigned(s), 1, C5_SepAt(s) - 1), ":")
C5_Fraction(s) ==
    SubSeq(C5_Unsigned(s), C5_SepAt(s) + 1, Len(C5_Unsigned(s)))
\* the i-th field from the right, 0 when there is none
C5_Field(s, i) ==
    LET fs == C5_Fields(s)
    IN  IF i <= Len(fs) THEN parseInt(fs[Len(fs) - i + 1]) ELSE 0
C5_FieldMs(s) ==
    C5_Field(s, 4) * 86400000 + C5_Field(s, 3) * 3600000
        + C5_Field(s, 2) * 60000 + C5_Field(s, 1) * 1000
C5_Sign(s) == IF s # <<>> /\ s[1] = "-" THEN -1 ELSE 1
\* a digit string without its leading zeros: the numeral of its value
C5_Numeral(ds) ==
    LET j == RunEnd(ds, 1, {"0"})
    IN  IF j > Len(ds) THEN <<"0">> ELSE SubSeq(ds, j, Len(ds))

\* C5: for every accepted timecode string parseTimeToMs returns
\* sign * (days*86400000 + hours*3600000 + minutes*60000 + seconds*1000 +
\* millis), the fields read right to left (the rightmost four count), millis
\* the literal integer value of the fraction digit string of any length,
\* sign -1 exactly when the string starts with '-'.  The literal value is
\* compared as a numeral: result/sign - fields is non-negative and its
\* decimal numeral is the fraction digit string without leading zeros.
C5_LiteralMillis ==
    (tcPc = "parsed" /\ tcStr \in StructuredTimeStrings /\ tcRes.ok) =>
        LET millis == C5_Sign(tcStr) * tcRes.val - C5_FieldMs(tcStr)
        IN  /\ millis >= 0
            /\ NatToStr(millis) = C5_Numeral(C5_Fraction(tcStr))

\* A string has a digit field for every colon-separated piece of it that
\* holds a digit.
C6_DigitFields(s) ==
    LET fs == split(s, ":")
    IN  Cardinality({i \in 1..Len(fs) : \E k \in 1..Len(fs[i]) : fs[i][k] \in Digit})

C7_Trim(s) ==
    LET a == RunEnd(s, 1, Whitespace)
        b == CHOOSE j \in 0..Len(s) :
                /\ (j = 0 \/ s[j] \notin Whitespace)
                /\ \A k \in (j + 1)..Len(s) : s[k] \in Whitespace
    IN  SubSeq(s, a, b)

\* a valid timecode string: the whole of it is a timestamp
C7_Valid(s) == RGX_TIMESTAMP(s).ok /\ RGX_TIMESTAMP(s).str = s

\* C7: for every valid timecode string and every number of leading and
\* trailing whitespace characters around it, parseTimeToMs of the padded
\* string equals parseTimeToMs of the string.
C7_PaddingIgnored ==
    (tcPc = "parsed" /\ C7_Valid(C7_Trim(tcStr))) =>
        tcRes = parseTimeToMs(C7_Trim(tcStr))

\* C8: stringifyMsToTime(ms) has the shape [-]HH:MM:SS,mmm: '-' exactly when
\* ms is negative, HH = |ms| div 3600000 padded to at least two digits, MM and
\* SS two digits each below 60, mmm three digits.
C8_CanonicalShape ==
    tcPc \in {"formatted", "roundtrip"} =>
        LET neg  == tcStr # <<>> /\ tcStr[1] = "-"
            body == IF neg THEN Tail(tcStr) ELSE tcStr
            n    == Len(body)
            hh   == SubSeq(body, 1, n - 10)
            mm   == SubSeq(body, n - 8, n - 7)
            ss   == SubSeq(body, n - 5, n - 4)
            mmm  == SubSeq(body, n - 2, n)
        IN  /\ neg <=> tcMs < 0
            /\ n >= 12
            /\ body[n - 9] = ":" /\ body[n - 6] = ":" /\ body[n - 3] = ","
            /\ AllDigits(hh) /\ AllDigits(mm) /\ AllDigits(ss) /\ AllDigits(mmm)
            /\ parseInt(hh) = Abs(tcMs) \div 3600000
            /\ (Len(hh) = 2 \/ hh[1] # "0")
            /\ parseInt(mm) < 60 /\ parseInt(ss) < 60

C8_Witness ==
    /\ tcPc = "formatted"
    /\ tcMs = -(100 * 3600000 + 7 * 60000 + 9 * 1000 + 5)
    /\ tcStr = <<"-", "1", "0", "0", ":", "0", "7", ":", "0", "9", ",",
                 "0", "0", "5">>

----------------------------------------------------------------------------
(* utils/StringWalker.ts *)

Min(a, b) == IF a < b THEN a ELSE b

\* StringWalker.remaining
remaining(src, p) == SubSeq(src, p + 1, Len(src))

\* StringWalker.hasRemaining
hasRemaining(src, p) == p < Len(src)

\* StringWalker.peek
peek(src, p, length) == SubSeq(src, p + 1, Min(p + length, Len(src)))

(* The patterns handed to expect, each as r.match(pattern) on a string r. *)

\* /^\s*/m: the run of whitespace at the start of r (^ matches at index 0)
RGX_SPACES(r) == Matched(SubSeq(r, 1, RunEnd(r, 1, Whitespace) - 1))

\* /\d+/, not anchored: the first run of digits anywhere in r
RGX_DIGITS(r) ==
    LET i == RunEndNot(r, 1, Digit)
    IN  IF i > Len(r) THEN NoMatch
        ELSE Matched(SubSeq(r, i, RunEnd(r, i, Digit) - 1))

\* The line-break pattern without the whitespace after the line break
RGX_BREAK_NoIndent(r) ==
    LET k == RunEndNot(r, 1, {NL})
        i == CHOOSE a \in 1..k :
                /\ \A b \in a..k : r[b] \in Whitespace
                /\ (a = 1 \/ r[a - 1] \notin Whitespace)
    IN  IF k > Len(r) THEN NoMatch
        ELSE Matched(SubSeq(r, i, k))

\* /\s*\n\s*/, not anchored: the leftmost run of whitespace that holds a line
\* break, that is the whole whitespace run around the first '\n' of r
RGX_BREAK(r) ==
    LET k == RunEndNot(r, 1, {NL})
        i == CHOOSE a \in 1..k :
                /\ \A b \in a..k : r[b] \in Whitespace
                /\ (a = 1 \/ r[a - 1] \notin Whitespace)
    IN  IF k > Len(r) THEN NoMatch
        ELSE Matched(SubSeq(r, i, RunEnd(r, k, Whitespace) - 1))

\* The arrow pattern with one or more '-'
RGX_ARROW_OneDash(r) ==
    LET a == RunEnd(r, 1, Whitespace)
        b == RunEnd(r, a, {"-"})
        c == RunEnd(r, b + 1, Whitespace)
    IN  IF a > 1 /\ b - a >= 1 /\ b <= Len(r) /\ r[b] = ">" /\ c > b + 1
        THEN Matched(SubSeq(r, 1, c - 1))
        ELSE NoMatch

\* /^\s+--+>\s+/: whitespace, '-' followed by one or more '-', '>', whitespace
RGX_ARROW(r) ==
    LET a == RunEnd(r, 1, Whitespace)
        b == RunEnd(r, a, {"-"})
        c == RunEnd(r, b + 1, Whitespace)
    IN  IF a > 1 /\ b - a >= 2 /\ b <= Len(r) /\ r[b] = ">" /\ c > b + 1
        THEN Matched(SubSeq(r, 1, c - 1))
        ELSE NoMatch

\* The line pattern with * in place of +: it matches the empty line too
RGX_LINE_Empty(r) ==
    LET j == RunEndNot(r, 1, {NL})
    IN  Matched(SubSeq(r, 1, j - 1))

\* /^[^\n]+(?=\n|$)/: the characters up to the next line break or the end
RGX_LINE(r) ==
    LET j == RunEndNot(r, 1, {NL})
    IN  IF j = 1 THEN NoMatch ELSE Matched(SubSeq(r, 1, j - 1))

\* /\n?/: a line break at the start of r, or the empty string
RGX_OPT_NL(r) ==
    IF Len(r) >= 1 /\ r[1] = NL THEN Matched(<<NL>>) ELSE Matched(<<>>)

RegExp(rx) == [type |-> "RegExp", rx |-> rx, lit |-> <<>>]
Literal(lit) == [type |-> "string", rx |-> "", lit |-> lit]

\* r.match(rx) for the pattern named rx
match(r, rx) ==
    CASE rx = "SPACES"    -> RGX_SPACES(r)
      [] rx = "DIGITS"    -> RGX_DIGITS(r)
      [] rx = "BREAK"     -> RGX_BREAK(r)
      [] rx = "ARROW"     -> RGX_ARROW(r)
      [] rx = "LINE"      -> RGX_LINE(r)
      [] rx = "OPT_NL"    -> RGX_OPT_NL(r)
      [] rx = "TIMESTAMP" -> [ok |-> RGX_TIMESTAMP(r).ok,
                              str |-> RGX_TIMESTAMP(r).str]

Null(p) == [ok |-> FALSE, str |-> <<>>, pos |-> p]

\* StringWalker.expect(e) for a string or a RegExp e, on the walker
\* (src, p): the value returned (ok is FALSE for null) and the position
\* after the call.  A match advances the position by the length of the
\* matched text.
expect(src, p, e) ==
    IF e.type = "string"
    THEN IF peek(src, p, Len(e.lit)) = e.lit
         THEN [ok |-> TRUE, str |-> e.lit, pos |-> p + Len(e.lit)]
         ELSE Null(p)
    ELSE LET m == match(remaining(src, p), e.rx)
         IN  IF m.ok
             THEN [ok |-> TRUE, str |-> m.str, pos |-> p + Len(m.str)]
             ELSE Null(p)

\* The loop of expect over an array es: ctx is a walker over ctxSrc at
\* position cp, i the next matcher, matches the strings matched so far.
\* Returns the matches and ctx.pos, or not ok when a matcher returns null.
RECURSIVE expectEach(_, _, _, _, _)
expectEach(ctxSrc, cp, es, i, matches) ==
    IF i > Len(es) THEN [ok |-> TRUE, strs |-> matches, pos |-> cp]
    ELSE LET m == expect(ctxSrc, cp, es[i])
         IN  IF ~m.ok THEN [ok |-> FALSE, strs |-> <<>>, pos |-> cp]
             ELSE expectEach(ctxSrc, m.pos, es, i + 1, Append(matches, m.str))

\* expect for an array that keeps the position the trial walker reached
\* when a matcher fails
expectList_Partial(src, p, es) ==
    LET r == expectEach(remaining(src, p), 0, es, 1, <<>>)
    IN  IF r.ok THEN [ok |-> TRUE, strs |-> r.strs, pos |-> p + r.pos]
        ELSE [ok |-> FALSE, strs |-> <<>>, pos |-> p + r.pos]

\* expect for an array whose trial walker is clone() in place of
\* cloneRemaining(): ctx.pos counts from the start of the source, and this
\* walker advances by it
expectList_Clone(src, p, es) ==
    LET r == expectEach(remaining(src, p), 0, es, 1, <<>>)
    IN  IF r.ok THEN [ok |-> TRUE, strs |-> r.strs, pos |-> p + (p + r.pos)]
        ELSE [ok |-> FALSE, strs |-> <<>>, pos |-> p]

\* StringWalker.expect(es) for an array es: the matchers run on
\* cloneRemaining(); this walker advances by ctx.pos when all of them match.
expectList(src, p, es) ==
    LET r == expectEach(remaining(src, p), 0, es, 1, <<>>)
    IN  IF r.ok THEN [ok |-> TRUE, strs |-> r.strs, pos |-> p + r.pos]
        ELSE [ok |-> FALSE, strs |-> <<>>, pos |-> p]

\* StringWalker.skipWhitespace: the position after it
skipWhitespace(src, p) == expect(src, p, RegExp("SPACES")).pos

----------------------------------------------------------------------------
(* error.ts: SrtSyntaxError *)

\* ' '.repeat(n)
repeat(c, n) == [i \in 1..n |-> c]

\* The loop of format over lines: index i (from 1), accumulatedLength acc.
\* Returns lineId (as an index from 1) and accumulatedLength after the loop.
RECURSIVE formatScan(_, _, _, _)
formatScan(lines, i, acc, p) ==
    IF acc + Len(lines[i]) > p THEN [lineId |-> i, acc |-> acc]
    ELSE IF i = Len(lines)
         THEN [lineId |-> i, acc |-> acc + Len(lines[i]) + 1]
         ELSE formatScan(lines, i + 1, acc + Len(lines[i]) + 1, p)

\* SrtSyntaxError.format for a walker snapshot (src, p): the text returned,
\* or not ok when ' '.repeat(posInLine) throws RangeError for a negative
\* count.
format(src, p) ==
    LET lines == split(src, NL)
        scan == formatScan(lines, 1, 0, p)
        currentLine == lines[scan.lineId]
        posInLine == p - scan.acc
    IN  IF posInLine < 0 THEN [ok |-> FALSE, str |-> <<>>]
        ELSE [ok |-> TRUE,
              str |-> currentLine \o <<NL>> \o repeat(SP, posInLine)
                        \o <<"^">> \o <<NL>>]

InvalidId == <<"I", "n", "v", "a", "l", "i", "d", " ", "i", "d">>
InvalidDuration ==
    <<"I", "n", "v", "a", "l", "i", "d", " ",
      "d", "u", "r", "a", "t", "i", "o", "n">>

\* new SrtSyntaxError(info, ctx) with ctx at (src, p): what the throw
\* statement ends up throwing.  The constructor calls format(); when that
\* throws, the RangeError leaves the constructor in place of the
\* SrtSyntaxError.
SrtSyntaxError(info, src, p) ==
    LET f == format(src, p)
    IN  IF f.ok
        THEN [kind |-> "SrtSyntaxError", message |-> info \o <<NL>> \o f.str,
              pos |-> p]
        ELSE [kind |-> "RangeError", message |-> <<>>, pos |-> p]

----------------------------------------------------------------------------
(* parser/SrtNode.ts *)

SrtNode(id, appear, disappear, subtitle) ==
    [id |-> id, appear |-> appear, disappear |-> disappear,
     subtitle |-> subtitle]

ArrowText == <<" ", "-", "-", ">", " ">>

\* SrtNode.toString
nodeToString(self) ==
    IntToStr(self.id) \o <<NL>> \o stringifyMsToTime(self.appear)
        \o ArrowText \o stringifyMsToTime(self.disappear) \o <<NL>>
        \o self.subtitle \o <<NL>>

----------------------------------------------------------------------------
(* SubRipText.ts *)

\* SubRipText.toString
toString(ns) == join([i \in 1..Len(ns) |-> nodeToString(ns[i])], <<NL>>)

\* nodes.filter(f): the nodes that satisfy x.appear <= time && x.disappear >= time
coversStrict(x, time) == x.appear < time /\ x.disappear > time
covers(x, time) == x.appear <= time /\ x.disappear >= time

\* One step of a stable sort by (a, b) => a.id - b.id: x goes after every
\* node of the sorted prefix whose id is not greater than its own.
insertById(sorted, x) ==
    LET k == CHOOSE j \in 0..Len(sorted) :
                /\ \A i \in 1..j : sorted[i].id <= x.id
                /\ (j = Len(sorted) \/ sorted[j + 1].id > x.id)
    IN  SubSeq(sorted, 1, k) \o <<x>> \o SubSeq(sorted, k + 1, Len(sorted))

\* Array.prototype.sort((a, b) => a.id - b.id), which is stable
RECURSIVE sortById(_)
sortById(ns) ==
    IF ns = <<>> THEN <<>>
    ELSE insertById(sortById(SubSeq(ns, 1, Len(ns) - 1)), ns[Len(ns)])

\* SubRipText.getNodesAt
getNodesAt(ns, time) ==
    LET f(x) == covers(x, time)
    IN  sortById(SelectSeq(ns, f))

\* shiftTime that adds the offset to appear only
shiftTime_AppearOnly(ns, timeOffset) ==
    LET time == IF timeOffset.type = "string"
                THEN parseTimeToMs(timeOffset.str)
                ELSE [ok |-> TRUE, val |-> timeOffset.num]
    IN  IF ~time.ok THEN [threw |-> TRUE, nodes |-> ns]
        ELSE [threw |-> FALSE,
              nodes |-> [i \in 1..Len(ns) |->
                            [ns[i] EXCEPT !.appear = @ + time.val]]]

\* shiftTime that always moves the cues forward, by the magnitude of the offset
shiftTime_Forward(ns, timeOffset) ==
    LET time == IF timeOffset.type = "string"
                THEN parseTimeToMs(timeOffset.str)
                ELSE [ok |-> TRUE, val |-> timeOffset.num]
    IN  IF ~time.ok THEN [threw |-> TRUE, nodes |-> ns]
        ELSE [threw |-> FALSE,
              nodes |-> [i \in 1..Len(ns) |->
                            [ns[i] EXCEPT !.appear = @ + Abs(time.val),
                                          !.disappear = @ + Abs(time.val)]]]

\* SubRipText.shiftTime: whether it throws (parseTimeToMs does, before any
\* node is touched) and the nodes after the call.
shiftTime(ns, timeOffset) ==
    LET time == IF timeOffset.type = "string"
                THEN parseTimeToMs(timeOffset.str)
                ELSE [ok |-> TRUE, val |-> timeOffset.num]
    IN  IF ~time.ok THEN [threw |-> TRUE, nodes |-> ns]
        ELSE [threw |-> FALSE,
              nodes |-> [i \in 1..Len(ns) |->
                            [ns[i] EXCEPT !.appear = @ + time.val,
                                          !.disappear = @ + time.val]]]

----------------------------------------------------------------------------
(* The arithmetic of map() in SubRipText.mapTime.  A JavaScript number is  *)
(* an IEEE 754 binary64 value: the quotient, the product and the sum of    *)
(* the interpolation are each rounded to 53 significant bits, ties to     *)
(* even.  A finite number is modelled by its sign, the bits of its         *)
(* magnitude (most significant first, no leading zero) and the number e   *)
(* of those bits that stand after the binary point.                        *)

Precision == 53

\* The number of bits of the natural number n
BitLength(n) == Cardinality({l \in 0..30 : n \div (2 ^ l) > 0})

\* The bit string f as a tuple of its bits
BitString(f) == f \o <<>>

\* The bits of the natural number n, most significant first
NatBits(n) ==
    BitString([i \in 1..BitLength(n) |-> (n \div (2 ^ (BitLength(n) - i))) % 2])

Zeros(n) == [i \in 1..n |-> 0]

\* b without its leading zeros
StripZeros(b) == SubSeq(b, RunEnd(b, 1, {0}), Len(b))

\* b with zeros put in front up to the length n
PadZeros(b, n) == Zeros(n - Len(b)) \o b

\* b + 1: the last 0 of b becomes 1 and the ones after it become 0
Inc(b) ==
    LET zs == {i \in 1..Len(b) : b[i] = 0}
        z == CHOOSE i \in zs : \A j \in zs : j <= i
    IN  IF zs = {} THEN <<1>> \o Zeros(Len(b))
        ELSE SubSeq(b, 1, z - 1) \o <<1>> \o Zeros(Len(b) - z)

\* x + y for bit strings of equal length n, in n + 1 bits.  The carry out
\* of place i + 1 is 1 when a place below i holds two ones and every place
\* between holds one.
AddBits(x, y) ==
    LET n == Len(x)
        carry(i) ==
            IF \E j \in (i + 1)..n :
                    /\ x[j] + y[j] = 2
                    /\ \A k \in (i + 1)..(j - 1) : x[k] + y[k] = 1
            THEN 1 ELSE 0
    IN  BitString([i \in 1..(n + 1) |->
                        IF i = 1 THEN carry(0)
                        ELSE (x[i - 1] + y[i - 1] + carry(i - 1)) % 2])

\* x - y for bit strings of equal length with x >= y.  Place i lends to
\* the places below it when the first place below where x and y differ
\* holds 0 in x.
SubBits(x, y) ==
    LET n == Len(x)
        borrow(i) ==
            IF \E j \in (i + 1)..n :
                    /\ x[j] < y[j]
                    /\ \A k \in (i + 1)..(j - 1) : x[k] = y[k]
            THEN 1 ELSE 0
    IN  BitString([i \in 1..n |-> (x[i] - y[i] - borrow(i) + 2) % 2])

\* x < y for bit strings of equal length
LessBits(x, y) ==
    \E i \in 1..Len(x) :
        /\ x[i] < y[i]
        /\ \A j \in 1..(i - 1) : x[j] = y[j]

\* b * c for a bit string b and a natural number c, by long multiplication.
\* Column p (0 the lowest) holds one 1 for each 1 in place j of c that meets
\* a 1 in place p - j of b; a column holds fewer than 32 ones, so the
\* product is the sum of five bit strings, string k made of digit k of
\* every column's count and moved up k places.
MulBits(b, c) ==
    LET cb == NatBits(c)
        n == Len(b) + Len(cb) + 5
        bitOf(s, p) == IF p >= 0 /\ p < Len(s) THEN s[Len(s) - p] ELSE 0
        count(p) == Cardinality({j \in 0..(Len(cb) - 1) :
                                    bitOf(cb, j) = 1 /\ bitOf(b, p - j) = 1})
        plane(k) == BitString([i \in 1..n |->
                        IF n - i < k THEN 0
                        ELSE (count(n - i - k) \div (2 ^ k)) % 2])
        low == AddBits(AddBits(plane(0), plane(1)),
                       AddBits(plane(2), plane(3)))
    IN  AddBits(low, PadZeros(plane(4), Len(low)))

NaN == [cls |-> "NaN", neg |-> FALSE, bits |-> <<>>, e |-> 0]
Infinity(neg) == [cls |-> "Infinity", neg |-> neg, bits |-> <<>>, e |-> 0]

\* The finite number (-1)^neg * bits * 2^(-e) in its one representation:
\* no leading zero, no fraction bit that is a trailing zero, zero unsigned.
Finite(neg, bits, e) ==
    LET b == StripZeros(bits)
        last1 == IF b = <<>> THEN 0
                 ELSE CHOOSE i \in 1..Len(b) :
                        b[i] = 1 /\ \A j \in (i + 1)..Len(b) : b[j] = 0
        drop == Min(Len(b) - last1, IF e > 0 THEN e ELSE 0)
    IN  IF b = <<>>
        THEN [cls |-> "finite", neg |-> FALSE, bits |-> <<>>, e |-> 0]
        ELSE IF e < 0
        THEN [cls |-> "finite", neg |-> neg, bits |-> b \o Zeros(-e), e |-> 0]
        ELSE [cls |-> "finite", neg |-> neg,
              bits |-> SubSeq(b, 1, Len(b) - drop), e |-> e - drop]

\* Rounding to Precision significant bits, ties to even; sticky says that
\* bits below those of the string were left out and are not all zero.
Round(neg, bits, e, sticky) ==
    LET b == StripZeros(bits)
        rest == SubSeq(b, Precision + 1, Len(b))
        keep == SubSeq(b, 1, Precision)
        more == sticky \/ \E i \in 2..Len(rest) : rest[i] = 1
        up == rest[1] = 1 /\ (more \/ keep[Precision] = 1)
    IN  IF Len(b) <= Precision THEN Finite(neg, b, e)
        ELSE Finite(neg, IF up THEN Inc(keep) ELSE keep, e - Len(rest))

\* The number n of type number, n an integer
ToNumber(n) == Finite(n < 0, NatBits(Abs(n)), 0)

\* 2^k modulo d, for d below 46341 (the squares stay below 2^31)
RECURSIVE Pow2Mod(_, _)
Pow2Mod(k, d) ==
    IF k = 0 THEN 1 % d
    ELSE LET h == Pow2Mod(k \div 2, d)
         IN  (((h * h) % d) * (IF k % 2 = 1 THEN 2 ELSE 1)) % d

\* The remainder of the long division of r by d after k bits below the
\* binary point
DivRem(r, d, k) == (r * Pow2Mod(k, d)) % d

\* The bits of the quotient below the binary point, one bit for each step
\* of the long division of r by d, after the bits of the integer part:
\* until the division ends or Precision + 1 significant bits are there
DivFrac(r, d, bits) ==
    LET bit(k) == (2 * DivRem(r, d, k - 1)) \div d
        first == CHOOSE k \in 1..31 : bit(k) = 1 /\ \A j \in 1..(k - 1) : bit(j) = 0
        full == IF bits # <<>> THEN Precision + 1 - Len(bits)
                ELSE IF r = 0 THEN 0 ELSE Precision + first
        ends == {k \in 0..full : DivRem(r, d, k) = 0}
        steps == IF ends = {} THEN full
                 ELSE CHOOSE k \in ends : \A j \in ends : k <= j
    IN  [bits |-> bits \o [k \in 1..steps |-> bit(k)], e |-> steps,
         sticky |-> DivRem(r, d, steps) # 0]

\* a / b for integers a and b
fdiv(a, b) ==
    LET q == DivFrac(Abs(a) % Abs(b), Abs(b), NatBits(Abs(a) \div Abs(b)))
    IN  IF b = 0 THEN (IF a = 0 THEN NaN ELSE Infinity(a < 0))
        ELSE Round((a < 0) # (b < 0), q.bits, q.e, q.sticky)

\* x * c for a number x and an integer c
fmul(x, c) ==
    IF x.cls = "NaN" THEN NaN
    ELSE IF x.cls = "Infinity"
    THEN (IF c = 0 THEN NaN ELSE Infinity(x.neg # (c < 0)))
    ELSE Round(x.neg # (c < 0), MulBits(x.bits, Abs(c)), x.e, FALSE)

\* t + x for an integer t and a number x
fadd(t, x) ==
    LET tb == NatBits(Abs(t)) \o Zeros(x.e)
        n == (IF Len(tb) > Len(x.bits) THEN Len(tb) ELSE Len(x.bits))
        a == PadZeros(tb, n)
        b == PadZeros(x.bits, n)
    IN  IF x.cls # "finite" THEN x
        ELSE IF (t < 0) = x.neg \/ t = 0
        THEN Round(x.neg, AddBits(a, b), x.e, FALSE)
        ELSE IF LessBits(a, b)
        THEN Round(x.neg, SubBits(b, a), x.e, FALSE)
        ELSE Round(t < 0, SubBits(a, b), x.e, FALSE)

----------------------------------------------------------------------------
(* SubRipText.mapTime: the table of control points and the function map.   *)
(* A mapping object is modelled by the sequence of its properties as the   *)
(* caller wrote them, each a key and a value given as a number or a string.*)

\* String(key): the property name a key written as a number or string gets
keyString(k) == IF k.type = "number" THEN IntToStr(k.num) ELSE k.str

\* A property name that is an integer index: such names come first in
\* Object.entries, in ascending order
IsArrayIndex(ks) ==
    ks # <<>> /\ AllDigits(ks) /\ (Len(ks) = 1 \/ ks[1] # "0")

\* One step of a stable sort by (a, b) => a[0] - b[0]
insertBySource(sorted, x) ==
    LET k == CHOOSE j \in 0..Len(sorted) :
                /\ \A i \in 1..j : sorted[i][1] <= x[1]
                /\ (j = Len(sorted) \/ sorted[j + 1][1] > x[1])
    IN  SubSeq(sorted, 1, k) \o <<x>> \o SubSeq(sorted, k + 1, Len(sorted))

\* Array.prototype.sort((a, b) => a[0] - b[0]), which is stable
RECURSIVE sortBySource(_)
sortBySource(ps) ==
    IF ps = <<>> THEN <<>>
    ELSE insertBySource(sortBySource(SubSeq(ps, 1, Len(ps) - 1)), ps[Len(ps)])

\* Object.entries(mappings): one [key, value] for each property name, with
\* the value written last for that name; integer indices first, ascending,
\* then the other names in the order they were first written.
ObjectEntries(mappings) ==
    LET name(i) == keyString(mappings[i].key)
        first(i) == \A j \in 1..(i - 1) : name(j) # name(i)
        lastOf(i) == CHOOSE j \in i..Len(mappings) :
                        /\ name(j) = name(i)
                        /\ \A l \in (j + 1)..Len(mappings) : name(l) # name(i)
        isIndex(i) == first(i) /\ IsArrayIndex(name(i))
        isOther(i) == first(i) /\ ~IsArrayIndex(name(i))
        places == [i \in 1..Len(mappings) |-> i]
        indices == sortBySource([k \in 1..Len(SelectSeq(places, isIndex)) |->
                        <<parseInt(name(SelectSeq(places, isIndex)[k])),
                          SelectSeq(places, isIndex)[k]>>])
        order == [k \in 1..Len(indices) |-> indices[k][2]]
                    \o SelectSeq(places, isOther)
    IN  [k \in 1..Len(order) |->
            <<name(order[k]), mappings[lastOf(order[k])].value>>]

\* /^\d+$/.test(key) ? ~~key : parseTimeToMs(key)
mappingKey(key) ==
    IF key # <<>> /\ AllDigits(key)
    THEN [ok |-> TRUE, val |-> ToInt32(key)]
    ELSE parseTimeToMs(key)

\* typeof value === 'number' ? value : parseTimeToMs(value)
mappingValue(value) ==
    IF value.type = "number" THEN [ok |-> TRUE, val |-> value.num]
    ELSE parseTimeToMs(value.str)

\* const sortedMappings: the table of [source, target] pairs, or not ok when
\* a call of parseTimeToMs throws
sortedMappings(mappings) ==
    LET entries == ObjectEntries(mappings)
        keys == [k \in 1..Len(entries) |-> mappingKey(entries[k][1])]
        values == [k \in 1..Len(entries) |-> mappingValue(entries[k][2])]
    IN  IF \E k \in 1..Len(entries) : ~keys[k].ok \/ ~values[k].ok
        THEN [ok |-> FALSE, table |-> <<>>]
        ELSE [ok |-> TRUE,
              table |-> sortBySource([k \in 1..Len(entries) |->
                            <<keys[k].val, values[k].val>>])]

\* min[1] + (max[1] - min[1]) / (max[0] - min[0]) * (ms - min[0]), for an
\* integer ms and control points min and max
interpolate(ms, min, max) ==
    fadd(min[2], fmul(fdiv(max[2] - min[2], max[1] - min[1]), ms - min[1]))

----------------------------------------------------------------------------
(* SubRipText.fromText(src) followed by toString(), as a state machine:   *)
(* one step for each block of SrtParser.parseNode and each iteration of   *)
(* its subtitle loop.                                                      *)

MaxCues == 2
MaxTextLen == 4

SubtitleInputs ==
    {<<"H", "i">>,
     <<"A", NL, "b", SP, "c">>,
     <<>>,
     <<SP, "A">>}

\* Cues a caller builds by hand: new SrtNode(id, appear, disappear, subtitle)
CueInputs ==
    {SrtNode(t[1], t[2], t[3], sub) :
        t \in {<<1, 1000, 2000>>, <<12, -1500, 360061001>>},
        sub \in SubtitleInputs}

DocInputs == UNION {[1..k -> CueInputs] : k \in 0..MaxCues}

\* The texts of the repository's tests (the subtitle shortened to "...")
Text_F == <<"F", NL>>
Text_ColonMs ==
    <<"1", NL, "0", "0", ":", "0", "2", ":", "1", "6", ":", "6", "1", "2",
      " ", "-", "-", ">", " ",
      "0", "0", ":", "0", "2", ":", "1", "9", ",", "3", "7", "6", NL,
      ".", ".", ".">>
Text_LetterColonMs ==
    <<"1", NL, "f", "0", "0", ":", "0", "2", ":", "1", "6", ":", "6", "1", "2",
      " ", "-", "-", ">", " ",
      "0", "0", ":", "0", "2", ":", "1", "9", ",", "3", "7", "6", NL,
      ".", ".", ".">>
Text_TwoLines ==
    <<"1", NL, "0", "0", ":", "0", "2", ":", "1", "6", ".", "6", "1", "2",
      " ", "-", "-", ">", " ",
      "0", "0", ":", "0", "2", ":", "1", "9", ",", "3", "7", "6", NL,
      "a", ".", NL, "b", ".", NL, NL>>

MaxDashes == 4

\* A cue whose duration line is '00:01', the whitespace w1, n dashes, '>',
\* the whitespace w2, '00:02'
ArrowCue(n, w1, w2) ==
    <<"1", NL, "0", "0", ":", "0", "1">> \o w1 \o [i \in 1..n |-> "-"]
        \o <<">">> \o w2 \o <<"0", "0", ":", "0", "2", NL, "A">>

ArrowSpaces == {<<SP>>, <<SP, SP>>}

ArrowTexts ==
    {ArrowCue(n, w1, w2) :
        n \in 1..MaxDashes, w1 \in ArrowSpaces, w2 \in ArrowSpaces}

\* A text with no digit on its first line and a whole cue after it
Text_LateId ==
    <<"F", NL, "0", "0", ":", "0", "1", SP, "-", "-", ">", SP,
      "0", "0", ":", "0", "2", NL, "A">>

\* A cue, a blank line, and a second cue that has no id
Text_SecondCueBad == ArrowCue(2, <<SP>>, <<SP>>) \o <<NL, NL, "F">>

MaxBlankLines == 2

LayoutCues ==
    {SrtNode(1, 1000, 2000, <<"H", "i">>),
     SrtNode(12, -1500, 360061001, <<"A", NL, "b", SP, "c">>)}

LayoutDocs == UNION {[1..k -> LayoutCues] : k \in 1..MaxCues}

\* The ways a document text is laid out: pad is the whitespace before the
\* id, at both ends of the id line and of the duration line and before the
\* text; w the whitespace on each side of the arrow and n its dashes; blanks
\* the number of separator lines between cues; eol the whitespace at the
\* end of each line of text and on each separator line.
Layouts ==
    [pad : {<<>>, <<SP>>}, w : ArrowSpaces, n : {2, MaxDashes},
     blanks : 1..MaxBlankLines, eol : {<<>>, <<SP>>}]

\* The cue c laid out as lay says, its last line ended by a line break
LayoutCue(c, lay) ==
    LET body == split(c.subtitle, NL)
    IN  lay.pad \o NatToStr(c.id) \o lay.pad \o <<NL>> \o lay.pad
            \o stringifyMsToTime(c.appear)
            \o lay.w \o [i \in 1..lay.n |-> "-"] \o <<">">> \o lay.w
            \o stringifyMsToTime(c.disappear) \o lay.pad \o <<NL>> \o lay.pad
            \o join([i \in 1..Len(body) |-> body[i] \o lay.eol], <<NL>>)
            \o <<NL>>

\* The document d laid out as lay says
LayoutText(d, lay) ==
    LET sep == join([i \in 1..lay.blanks |-> lay.eol \o <<NL>>], <<>>)
    IN  join([i \in 1..Len(d) |-> LayoutCue(d[i], lay)], sep)

\* Each laid-out text with the canonical text of its document
LayoutPairs ==
    {<<LayoutText(d, lay), toString(d), lay.eol>> :
        d \in LayoutDocs, lay \in Layouts}

ParseTexts ==
    {toString(d) : d \in DocInputs}
        \cup StringsUpTo({"1", "F", NL, SP}, MaxTextLen)
        \cup {Text_F, Text_ColonMs, Text_LetterColonMs, Text_TwoLines}
        \cup ArrowTexts
        \cup {Text_LateId, Text_SecondCueBad}
        \cup {p[1] : p \in LayoutPairs}

ParseInit ==
    /\ source \in ParseTexts
    /\ pos = 0
    /\ nodes = NoNodes
    /\ status = "parsing"
    /\ pc = "loop"
    /\ node = NewNode
    /\ nodeLines = <<>>
    /\ message = <<>>
    /\ output = <<>>
    /\ lastOp = NoOp
    /\ found = <<>>
    /\ mapCall = MapIdle
    /\ TimeIdle

\* throw new SrtSyntaxError(info, this) with the walker at position p
Throw(info, p) ==
    \E e \in {SrtSyntaxError(info, source, p)} :
        /\ status' = e.kind
        /\ message' = e.message
        /\ pos' = p

\* The loop of SrtParser.parse is entered and parseNode runs its identifier
\* block: new SrtNode(), skipWhitespace, expect(/\d+/), then either the throw
\* of "Invalid id" or node.id and expect(/\s*\n\s*/).
ParseId ==
    /\ status = "parsing"
    /\ pc = "loop"
    /\ hasRemaining(source, pos)
    /\ \E p1 \in {skipWhitespace(source, pos)} :
       \E match_id \in {expect(source, p1, RegExp("DIGITS"))} :
          IF ~match_id.ok
          THEN /\ Throw(InvalidId, p1)
               /\ node' = NewNode
               /\ UNCHANGED pc
          ELSE /\ node' = [NewNode EXCEPT !.id = parseInt(match_id.str)]
               /\ pos' = expect(source, match_id.pos, RegExp("BREAK")).pos
               /\ pc' = "timestamps"
               /\ UNCHANGED <<status, message>>
    /\ UNCHANGED <<source, nodes, nodeLines, output, lastOp, found, mapCall, tcVars>>

\* The timestamps block of parseNode: expect([RGX_TIMESTAMP, /^\s+--+>\s+/,
\* RGX_TIMESTAMP]), then either the throw of "Invalid duration" or the two
\* calls of parseTimeToMs and expect(/\s*\n\s*/); const lines = [].
ParseTimestamps ==
    /\ status = "parsing"
    /\ pc = "timestamps"
    /\ \E match_duration \in
            {expectList(source, pos,
                <<RegExp("TIMESTAMP"), RegExp("ARROW"), RegExp("TIMESTAMP")>>)} :
          IF ~match_duration.ok
          THEN /\ Throw(InvalidDuration, pos)
               /\ UNCHANGED <<node, pc>>
          ELSE \E appear \in {parseTimeToMs(match_duration.strs[1])} :
               \E disappear \in {parseTimeToMs(match_duration.strs[3])} :
                  IF ~appear.ok \/ ~disappear.ok
                  THEN /\ status' = "Error"
                       /\ pos' = match_duration.pos
                       /\ node' = IF appear.ok
                                  THEN [node EXCEPT !.appear = appear.val]
                                  ELSE node
                       /\ UNCHANGED <<message, pc>>
                  ELSE /\ node' = [node EXCEPT !.appear = appear.val,
                                               !.disappear = disappear.val]
                       /\ pos' = expect(source, match_duration.pos,
                                        RegExp("BREAK")).pos
                       /\ pc' = "subtitle"
                       /\ UNCHANGED <<status, message>>
    /\ nodeLines' = <<>>
    /\ UNCHANGED <<source, nodes, output, lastOp, found, mapCall, tcVars>>

\* One iteration of the subtitle loop of parseNode that matches a line:
\* lines.push(line), expect(/\n?/).
ParseLine ==
    /\ status = "parsing"
    /\ pc = "subtitle"
    /\ \E line \in {expect(source, pos, RegExp("LINE"))} :
          /\ line.ok
          /\ nodeLines' = Append(nodeLines, line.str)
          /\ pos' = expect(source, line.pos, RegExp("OPT_NL")).pos
    /\ UNCHANGED <<source, nodes, status, pc, node, message, output, lastOp,
                   found, mapCall, tcVars>>

\* The subtitle loop breaks: node.subtitle = lines.join('\n'), parseNode
\* returns, and the loop of parse pushes the node and runs expect('\n') and
\* skipWhitespace.
ParseNodeReturn ==
    /\ status = "parsing"
    /\ pc = "subtitle"
    /\ ~expect(source, pos, RegExp("LINE")).ok
    /\ \E done \in {[node EXCEPT !.subtitle = join(nodeLines, <<NL>>)]} :
          /\ node' = done
          /\ nodes' = Append(nodes, done)
    /\ pos' = skipWhitespace(source, expect(source, pos, Literal(<<NL>>)).pos)
    /\ pc' = "loop"
    /\ UNCHANGED <<source, status, nodeLines, message, output, lastOp, found,
                   mapCall, tcVars>>

\* The loop of SrtParser.parse ends: fromText returns the document.
ParseReturn ==
    /\ status = "parsing"
    /\ pc = "loop"
    /\ ~hasRemaining(source, pos)
    /\ status' = "returned"
    /\ UNCHANGED <<source, pos, nodes, pc, node, nodeLines, message, output,
                   lastOp, found, mapCall, tcVars>>

\* srt.toString() on the document fromText returned
CallToString ==
    /\ status = "returned"
    /\ output' = toString(nodes)
    /\ status' = "printed"
    /\ UNCHANGED <<source, pos, nodes, pc, node, nodeLines, message, lastOp,
                   found, mapCall, tcVars>>

\* The string a call of SubRipText.reformat returned is handed to reformat
\* again: fromText starts on it with a new document.
CallReformatAgain ==
    /\ status = "printed"
    /\ lastOp.op = "none"
    /\ lastOp' = [op |-> "reformat", arg |-> Str(source), pre |-> output,
                  threw |-> FALSE, count |-> lastOp.count + 1]
    /\ source' = output
    /\ pos' = 0
    /\ nodes' = NoNodes
    /\ status' = "parsing"
    /\ pc' = "loop"
    /\ node' = NewNode
    /\ nodeLines' = <<>>
    /\ output' = <<>>
    /\ UNCHANGED <<message, found, mapCall, tcVars>>

ParseNext ==
    \/ CallReformatAgain
    \/ ParseId
    \/ ParseTimestamps
    \/ ParseLine
    \/ ParseNodeReturn
    \/ ParseReturn
    \/ CallToString

SpecParse == ParseInit /\ [][ParseNext]_vars

----------------------------------------------------------------------------
(* Properties of fromText and toString *)

Returned == status \in {"returned", "printed"}
Thrown == status \in {"SrtSyntaxError", "RangeError", "Error"}

\* s starts with the string t
StartsWith(s, t) == Len(s) >= Len(t) /\ SubSeq(s, 1, Len(t)) = t
\* s ends with the string t
EndsWith(s, t) ==
    Len(s) >= Len(t) /\ SubSeq(s, Len(s) - Len(t) + 1, Len(s)) = t

\* A cue in canonical form: id, newline, canonical appear timecode, ' --> ',
\* canonical disappear timecode, newline, text, newline.
C1_Cue(c) ==
    NatToStr(c.id) \o <<NL>> \o stringifyMsToTime(c.appear)
        \o <<" ", "-", "-", ">", " ">> \o stringifyMsToTime(c.disappear)
        \o <<NL>> \o c.subtitle \o <<NL>>

\* The document texts in canonical form: cues joined by one blank line, that
\* is by one more newline after the one that ends each cue.
C1_CanonicalTexts ==
    {join([i \in 1..Len(d) |-> C1_Cue(d[i])], <<NL>>) : d \in DocInputs}

\* C1: for every document text in canonical form,
\* SubRipText.fromText(text).toString() equals text.
C1_CanonicalRoundTrip ==
    source \in C1_CanonicalTexts =>
        /\ ~Thrown
        /\ status = "printed" => output = source

\* C2: fromText either returns a document or throws an SrtSyntaxError whose
\* message is the info text followed by the line/caret diagnostic; no other
\* kind of error is thrown, wherever the cursor is at the point of failure.
C2_OnlySyntaxError ==
    Thrown =>
        /\ status = "SrtSyntaxError"
        /\ \E info \in {InvalidId, InvalidDuration} :
              /\ StartsWith(message, info \o <<NL>>)
              /\ EndsWith(message, <<"^", NL>>)

C16_AnchoredId ==
    [][(/\ status = "parsing"
        /\ pc = "loop"
        /\ skipWhitespace(source, pos) < Len(source)
        /\ source[skipWhitespace(source, pos) + 1] \notin Digit)
       => /\ status' = "SrtSyntaxError"
          /\ StartsWith(message', InvalidId)
          /\ pos' = skipWhitespace(source, pos)]_vars

\* C18: when the parse of a document fails on some cue, the document object
\* handed to SrtParser.parse holds the cues it held before the call (none,
\* for the new SubRipText of fromText), and no document is returned.
C18_NoPartialDocument ==
    Thrown => nodes = NoNodes /\ output = <<>>

C22_LineStart(src, p) ==
    LET breaks == {i \in 1..p : src[i] = NL}
    IN  IF breaks = {} THEN 0 ELSE CHOOSE i \in breaks : \A j \in breaks : j <= i

\* The line of src that holds position p, without its line break
C22_Line(src, p) ==
    SubSeq(src, C22_LineStart(src, p) + 1,
           RunEndNot(src, C22_LineStart(src, p) + 1, {NL}) - 1)

\* C22: for every SrtSyntaxError that is raised, format() renders the source
\* line that holds the snapshot position, then a line of c spaces and a
\* caret, c being the position minus the offset of the first character of
\* that line, with 0 <= c <= length of the line; for every position from 0
\* to the length of the source, on a line break and at the end of input too.
C22_CaretUnderPosition ==
    status \in {"SrtSyntaxError", "RangeError"} =>
        LET c == pos - C22_LineStart(source, pos)
            line == C22_Line(source, pos)
        IN  /\ 0 <= c /\ c <= Len(line)
            /\ status = "SrtSyntaxError"
            /\ \E info \in {InvalidId, InvalidDuration} :
                  message = info \o <<NL>> \o line \o <<NL>>
                                \o repeat(SP, c) \o <<"^", NL>>

\* A text of zero or more lines, each holding a character that is not
\* whitespace
C25_NonBlankLines(sub) ==
    sub = <<>> \/ \A i \in 1..Len(split(sub, NL)) :
                     \E k \in 1..Len(split(sub, NL)[i]) :
                        split(sub, NL)[i][k] \notin Whitespace

\* C25: for every document whose cues have ids that are non-negative
\* integers, appear and disappear that are integers and a text of zero or
\* more non-blank lines, fromText(doc.toString()) has the same number of
\* cues in the same order, with equal id, appear, disappear and text.
C25_DocumentRoundTrip ==
    \A d \in DocInputs :
        (/\ source = toString(d)
         /\ \A i \in 1..Len(d) : C25_NonBlankLines(d[i].subtitle))
        => /\ ~Thrown
           /\ Returned => nodes = d

----------------------------------------------------------------------------
(* A document a caller fills by hand (srt.nodes.push(...)) and then        *)
(* queries and retimes.                                                    *)

MaxDocCues == 2
MaxOps == 2

DocCueInputs ==
    {SrtNode(1, 1000, 3000, <<"A">>),
     SrtNode(2, 2000, 4000, <<"B">>),
     SrtNode(3, 5000, 7000, <<"C">>),
     SrtNode(1, 2000, 3000, <<"D">>),
     SrtNode(2, 3000, 1000, <<"E">>)}

HandDocs == UNION {[1..k -> DocCueInputs] : k \in 0..MaxDocCues}

QueryTimes == {1000, 2500, 3000, 8000}

ShiftArgs ==
    {Num(500), Num(-500), Num(-2000),
     Str(<<"0", "0", ":", "0", "0", ":", "0", "1", ",", "0", "0", "0">>),
     Str(<<"-", "0", "0", ":", "0", "0", ":", "0", "1", ",", "5", "0", "0">>),
     Str(<<"i", "n", "v", "a", "l", "i", "d">>),
     Str(<<"0", "0", ":", "0", "1", "x">>)}

DocInit ==
    /\ nodes \in HandDocs
    /\ lastOp = NoOp
    /\ found = <<>>
    /\ mapCall = MapIdle
    /\ ParserIdle
    /\ TimeIdle

\* srt.getNodesAt(time)
CallGetNodesAt ==
    /\ lastOp.count < MaxOps
    /\ \E time \in QueryTimes :
          /\ found' = getNodesAt(nodes, time)
          /\ lastOp' = [op |-> "getNodesAt", arg |-> Num(time), pre |-> nodes,
                        threw |-> FALSE, count |-> lastOp.count + 1]
    /\ UNCHANGED <<nodes, mapCall, parserVars, tcVars>>

\* srt.shiftTime(timeOffset)
CallShiftTime ==
    /\ lastOp.count < MaxOps
    /\ \E timeOffset \in ShiftArgs :
          LET r == shiftTime(nodes, timeOffset)
          IN  /\ nodes' = r.nodes
              /\ lastOp' = [op |-> "shiftTime", arg |-> timeOffset,
                            pre |-> nodes, threw |-> r.threw,
                            count |-> lastOp.count + 1]
    /\ UNCHANGED <<found, mapCall, parserVars, tcVars>>

DocNext == CallGetNodesAt \/ CallShiftTime

SpecDoc == DocInit /\ [][DocNext]_vars

----------------------------------------------------------------------------
(* Properties of the document operations *)

\* C9: getNodesAt(t) returns exactly the cues with appear <= t <= disappear
\* (both bounds inclusive), ordered by ascending id, cues of equal id in
\* their document order; the empty sequence when no cue covers t.  Stated
\* with the map from each place of the result to the place in the document
\* it comes from.
C9_GetNodesAt ==
    lastOp.op = "getNodesAt" =>
        LET t == lastOp.arg.num
            visible == {i \in 1..Len(nodes) :
                            nodes[i].appear <= t /\ t <= nodes[i].disappear}
        IN  /\ Len(found) = Cardinality(visible)
            /\ \E from \in [1..Len(found) -> 1..Len(nodes)] :
                  /\ {from[k] : k \in 1..Len(found)} = visible
                  /\ \A k \in 1..Len(found) : found[k] = nodes[from[k]]
                  /\ \A k, l \in 1..Len(found) :
                        k < l =>
                            \/ found[k].id < found[l].id
                            \/ found[k].id = found[l].id /\ from[k] < from[l]

\* two cues of equal id found, out of document places 1 and 2, at a time
\* that is the disappear time of both
C9_Witness ==
    /\ lastOp.op = "getNodesAt"
    /\ lastOp.arg.num = 3000
    /\ Len(nodes) = 2
    /\ found = nodes
    /\ found[1].id = found[2].id
    /\ found[1].disappear = 3000

\* C10: shiftTime(o) replaces every cue's appear and disappear by the old
\* value plus o, o being the integer argument or parseTimeToMs of the string
\* argument (negative spellings included); ids, texts, number and order of
\* the cues are unchanged.
C10_ShiftTime ==
    (lastOp.op = "shiftTime" /\ ~lastOp.threw) =>
        LET o == IF lastOp.arg.type = "string"
                 THEN parseTimeToMs(lastOp.arg.str).val
                 ELSE lastOp.arg.num
        IN  /\ Len(nodes) = Len(lastOp.pre)
            /\ \A i \in 1..Len(nodes) :
                  /\ nodes[i].appear = lastOp.pre[i].appear + o
                  /\ nodes[i].disappear = lastOp.pre[i].disappear + o
                  /\ nodes[i].id = lastOp.pre[i].id
                  /\ nodes[i].subtitle = lastOp.pre[i].subtitle

\* the test 'should shift time with string format and negative offset'
C10_Witness ==
    /\ lastOp.op = "shiftTime"
    /\ ~lastOp.threw
    /\ lastOp.arg.type = "string"
    /\ lastOp.pre = <<SrtNode(1, 1000, 3000, <<"A">>),
                      SrtNode(2, 2000, 4000, <<"B">>)>>
    /\ nodes = <<SrtNode(1, -500, 1500, <<"A">>),
                 SrtNode(2, 500, 2500, <<"B">>)>>

\* C11: a call shiftTime(-d) that directly follows a call shiftTime(d), d an
\* integer, leaves every cue's appear and disappear equal to their values
\* before the two calls.
C11_ShiftBack ==
    [][(/\ lastOp.op = "shiftTime"
        /\ lastOp.arg.type = "number"
        /\ lastOp'.op = "shiftTime"
        /\ lastOp'.count = lastOp.count + 1
        /\ lastOp'.arg = Num(-lastOp.arg.num))
       => /\ Len(nodes') = Len(lastOp.pre)
          /\ \A i \in 1..Len(nodes') :
                /\ nodes'[i].appear = lastOp.pre[i].appear
                /\ nodes'[i].disappear = lastOp.pre[i].disappear]_vars

\* shiftTime(500) then shiftTime(-500) on a document of two cues
C11_Witness ==
    /\ lastOp.op = "shiftTime"
    /\ lastOp.count = 2
    /\ lastOp.arg = Num(-500)
    /\ lastOp.pre = <<SrtNode(1, 1500, 3500, <<"A">>),
                      SrtNode(2, 3500, 1500, <<"E">>)>>
    /\ nodes = <<SrtNode(1, 1000, 3000, <<"A">>),
                 SrtNode(2, 3000, 1000, <<"E">>)>>

\* The string s is a timecode: an optional sign, two or more runs of digits
\* with ':' between them, and an optional ',' or '.' with digits, and
\* nothing else
C26_ValidTimecode(s) == RGX_TIMESTAMP(s).ok /\ RGX_TIMESTAMP(s).str = s

\* A string key or value of a mapping that is no timecode; a key of digits
\* only is the integer it spells
C26_InvalidSide(e) ==
    \/ /\ e.key.type = "string"
       /\ ~(e.key.str # <<>> /\ AllDigits(e.key.str))
       /\ ~C26_ValidTimecode(e.key.str)
    \/ /\ e.value.type = "string"
       /\ ~C26_ValidTimecode(e.value.str)

\* C26: if the string argument of shiftTime, or a string key or value of a
\* mapTime mapping, is not a valid timecode, the call throws and every cue's
\* appear and disappear keep the values they had before the call.
C26_InvalidArgumentThrows ==
    /\ (/\ lastOp.op = "shiftTime"
        /\ lastOp.arg.type = "string"
        /\ ~C26_ValidTimecode(lastOp.arg.str))
       => (lastOp.threw /\ nodes = lastOp.pre)
    /\ (/\ lastOp.op = "mapTime"
        /\ \E k \in 1..Len(lastOp.arg) : C26_InvalidSide(lastOp.arg[k]))
       => (lastOp.threw /\ nodes = lastOp.pre)

----------------------------------------------------------------------------
(* srt.mapTime(mappings) on a document a caller filled by hand, as a state *)
(* machine: the table is built, then forEach calls map for appear and for  *)
(* disappear of each node; the binary search of map takes one step for     *)
(* each iteration.  A time that map has returned is kept as the binary64   *)
(* number it is.                                                           *)

MaxMapCues == 2

MapCueInputs ==
    {SrtNode(1, 1000, 2000, <<"A">>),
     SrtNode(2, 3000, 4000, <<"B">>),
     SrtNode(3, 5000, 6000, <<"C">>),
     SrtNode(4, 9000, 12000, <<"D">>),
     SrtNode(5, 10, 17, <<"E">>),
     SrtNode(6, -1000, 0, <<"F">>)}

MapDocs == UNION {[1..k -> MapCueInputs] : k \in 0..MaxMapCues}

Entry(k, v) == [key |-> k, value |-> v]

\* The timecode string '00:00:0s,000' for a digit s
Seconds(d) == <<"0", "0", ":", "0", "0", ":", "0", d, ",", "0", "0", "0">>

\* The mapping objects of the tests of mapTime, the same with other
\* spellings of their keys and values, and mappings with a key or value that
\* is no timecode
MapArgs ==
    {<<>>,
     <<Entry(Num(3000), Num(5000))>>,
     <<Entry(Num(0), Num(1000)), Entry(Num(5000), Num(6000))>>,
     <<Entry(Num(0), Num(0)), Entry(Num(3000), Num(4000)),
       Entry(Num(6000), Num(12000))>>,
     <<Entry(Num(6000), Num(12000)), Entry(Num(0), Num(0)),
       Entry(Num(3000), Num(4000))>>,
     <<Entry(Str(Seconds("1")), Str(Seconds("2"))),
       Entry(Str(Seconds("4")), Str(Seconds("5")))>>,
     <<Entry(Num(1000), Num(2000)), Entry(Num(4000), Num(5000))>>,
     <<Entry(Num(-1000), Num(0)), Entry(Num(1000), Num(2000))>>,
     <<Entry(Str(<<"-">> \o Seconds("1")), Str(Seconds("0"))),
       Entry(Str(Seconds("1")), Str(Seconds("2")))>>,
     <<Entry(Num(0), Num(-1000)), Entry(Num(2000), Num(1000))>>,
     <<Entry(Str(<<"i", "n", "v", "a", "l", "i", "d">>), Num(0))>>,
     <<Entry(Num(1000), Str(<<"x">>))>>,
     <<Entry(Num(0), Num(0)), Entry(Num(10), Num(1)), Entry(Num(17), Num(30))>>,
     <<Entry(Num(0), Num(0)), Entry(Num(1000), Num(1000)),
       Entry(Num(3000), Num(4000)), Entry(Num(6000), Num(12000)),
       Entry(Num(12000), Num(13000))>>,
     <<Entry(Num(1000), Num(2000)), Entry(Str(Seconds("1")), Num(3000))>>,
     <<Entry(Num(0), Num(0)), Entry(Num(1000), Num(2000)),
       Entry(Str(Seconds("1")), Num(3000))>>,
     <<Entry(Str(Seconds("1")), Num(2000)), Entry(Str(Seconds("1")), Num(3000)),
       Entry(Num(4000), Num(5000))>>,
     <<Entry(Num(1000), Str(Seconds("2") \o <<"x">>))>>}

MapInit ==
    /\ nodes \in MapDocs
    /\ lastOp = NoOp
    /\ found = <<>>
    /\ mapCall = MapIdle
    /\ ParserIdle
    /\ TimeIdle

\* srt.mapTime(mappings) is called on the document as the caller built it:
\* sortedMappings is computed, or parseTimeToMs throws.
CallMapTime ==
    /\ mapCall.pc = "idle"
    /\ lastOp.op = "none"
    /\ \E mappings \in MapArgs :
       \E sm \in {sortedMappings(mappings)} :
          /\ lastOp' = [op |-> "mapTime", arg |-> mappings, pre |-> nodes,
                        threw |-> ~sm.ok, count |-> lastOp.count + 1]
          /\ mapCall' = IF sm.ok
                        THEN [MapIdle EXCEPT !.pc = "forEach",
                                             !.sortedMappings = sm.table,
                                             !.x = 1]
                        ELSE [MapIdle EXCEPT !.pc = "threw"]
    /\ UNCHANGED <<nodes, found, parserVars, tcVars>>

\* forEach that assigns x.appear only
MapStore_AppearOnly(result) ==
    /\ nodes' = IF mapCall.field = "appear"
                THEN [nodes EXCEPT ![mapCall.x][mapCall.field] = result]
                ELSE [nodes EXCEPT ![mapCall.x][mapCall.field] = ToNumber(@)]
    /\ mapCall' = IF mapCall.field = "appear"
                  THEN [mapCall EXCEPT !.pc = "forEach",
                                       !.field = "disappear"]
                  ELSE [mapCall EXCEPT !.pc = "forEach",
                                       !.field = "appear", !.x = @ + 1]

\* map returns result: x.appear = result or x.disappear = result, and
\* forEach goes on
MapStore(result) ==
    /\ nodes' = [nodes EXCEPT ![mapCall.x][mapCall.field] = result]
    /\ mapCall' = IF mapCall.field = "appear"
                  THEN [mapCall EXCEPT !.pc = "forEach",
                                       !.field = "disappear"]
                  ELSE [mapCall EXCEPT !.pc = "forEach",
                                       !.field = "appear", !.x = @ + 1]

\* forEach calls map(x.appear, sortedMappings) or map(x.disappear,
\* sortedMappings): the switch on mappings.length, up to the while loop of
\* the default case.
MapSwitch ==
    /\ mapCall.pc = "forEach"
    /\ mapCall.x <= Len(nodes)
    /\ LET ms == nodes[mapCall.x][mapCall.field]
           mappings == mapCall.sortedMappings
           length == Len(mappings)
       IN  CASE length = 0 -> MapStore(ToNumber(ms))
             [] length = 1 ->
                    MapStore(ToNumber(mappings[1][2] + (ms - mappings[1][1])))
             [] length = 2 ->
                    MapStore(interpolate(ms, mappings[1], mappings[2]))
             [] OTHER ->
                    IF ms < mappings[1][1]
                    THEN MapStore(ToNumber(mappings[1][2]))
                    ELSE IF ms > mappings[length][1]
                    THEN MapStore(ToNumber(mappings[length][2]))
                    ELSE /\ mapCall' = [mapCall EXCEPT !.pc = "while",
                                                       !.minId = 0,
                                                       !.maxId = length - 1]
                         /\ UNCHANGED nodes
    /\ UNCHANGED <<lastOp, found, parserVars, tcVars>>

\* One iteration of while (maxId - minId > 1)
MapWhile ==
    /\ mapCall.pc = "while"
    /\ mapCall.maxId - mapCall.minId > 1
    /\ LET ms == nodes[mapCall.x][mapCall.field]
           mid == (mapCall.minId + mapCall.maxId) \div 2
       IN  mapCall' = IF ms < mapCall.sortedMappings[mid + 1][1]
                      THEN [mapCall EXCEPT !.maxId = mid]
                      ELSE [mapCall EXCEPT !.minId = mid]
    /\ UNCHANGED <<nodes, lastOp, found, parserVars, tcVars>>

\* The while loop ends: map returns the interpolation between
\* mappings[minId] and mappings[maxId].
MapInterpolate ==
    /\ mapCall.pc = "while"
    /\ ~(mapCall.maxId - mapCall.minId > 1)
    /\ MapStore(interpolate(nodes[mapCall.x][mapCall.field],
                            mapCall.sortedMappings[mapCall.minId + 1],
                            mapCall.sortedMappings[mapCall.maxId + 1]))
    /\ UNCHANGED <<lastOp, found, parserVars, tcVars>>

\* forEach has visited every node: mapTime returns
MapTimeReturn ==
    /\ mapCall.pc = "forEach"
    /\ mapCall.x > Len(nodes)
    /\ mapCall' = [mapCall EXCEPT !.pc = "returned"]
    /\ UNCHANGED <<nodes, lastOp, found, parserVars, tcVars>>

MapNext ==
    \/ CallMapTime
    \/ MapSwitch
    \/ MapWhile
    \/ MapInterpolate
    \/ MapTimeReturn

SpecMap == MapInit /\ [][MapNext]_vars

----------------------------------------------------------------------------
(* Properties of mapTime *)

\* mapTime has returned
MapReturned == lastOp.op = "mapTime" /\ mapCall.pc = "returned"

\* The appear and disappear times of the document after mapTime are those
\* of the nodes ns, ids and texts being those from before the call
SameTimesAs(ns) ==
    /\ Len(nodes) = Len(ns)
    /\ Len(nodes) = Len(lastOp.pre)
    /\ \A i \in 1..Len(nodes) :
          /\ nodes[i].appear = ToNumber(ns[i].appear)
          /\ nodes[i].disappear = ToNumber(ns[i].disappear)
          /\ nodes[i].id = lastOp.pre[i].id
          /\ nodes[i].subtitle = lastOp.pre[i].subtitle

\* C12: mapTime with an empty mapping leaves every cue's appear and disappear
\* unchanged, and mapTime with exactly one control point (s, t) leaves the
\* document as shiftTime(t - s) leaves the document from before the call.
C12_EmptyAndSinglePoint ==
    MapReturned =>
        /\ Len(lastOp.arg) = 0 => SameTimesAs(lastOp.pre)
        /\ Len(lastOp.arg) = 1 =>
              LET s == mapCall.sortedMappings[1][1]
                  t == mapCall.sortedMappings[1][2]
              IN  SameTimesAs(shiftTime(lastOp.pre, Num(t - s)).nodes)

\* the test 'should map time with single mapping point'
C12_Witness ==
    /\ MapReturned
    /\ lastOp.arg = <<Entry(Num(3000), Num(5000))>>
    /\ lastOp.pre = <<SrtNode(1, 1000, 2000, <<"A">>)>>
    /\ nodes[1].appear = ToNumber(3000)
    /\ nodes[1].disappear = ToNumber(4000)

\* C13: with two or more control points, a cue time outside the span of the
\* sorted source values is mapped along the line through the two control
\* points nearest that boundary, not to the target of the boundary point:
\* with {0:0, 3000:4000, 6000:12000}, 9000 becomes 20000 and 12000 becomes
\* 28000.
C13_Extrapolates ==
    (MapReturned /\ Len(mapCall.sortedMappings) >= 2) =>
        LET mappings == mapCall.sortedMappings
            n == Len(mappings)
        IN  \A i \in 1..Len(nodes) : \A f \in {"appear", "disappear"} :
                LET q == lastOp.pre[i][f]
                IN  /\ q < mappings[1][1] =>
                        nodes[i][f] = interpolate(q, mappings[1], mappings[2])
                    /\ q > mappings[n][1] =>
                        nodes[i][f] =
                            interpolate(q, mappings[n - 1], mappings[n])

\* C14: a control-point side given as an integer n counts as n milliseconds,
\* for every signed n, and a side given as a timecode string as
\* parseTimeToMs of it: a mapping of integer keys and values gives the table
\* of those integers, sorted by source, and the same mapping written with
\* the canonical timecode strings of the integers gives the same table.
C14_IntegerAndTimecodeSides ==
    (/\ lastOp.op = "mapTime"
     /\ \A k \in 1..Len(lastOp.arg) :
           /\ lastOp.arg[k].key.type = "number"
           /\ lastOp.arg[k].value.type = "number")
    => LET m == lastOp.arg
           asTimecodes ==
               [k \in 1..Len(m) |->
                   Entry(Str(stringifyMsToTime(m[k].key.num)),
                         Str(stringifyMsToTime(m[k].value.num)))]
           pairs == [k \in 1..Len(m) |-> <<m[k].key.num, m[k].value.num>>]
       IN  /\ ~lastOp.threw
           /\ sortedMappings(m).table = sortBySource(pairs)
           /\ sortedMappings(asTimecodes) = sortedMappings(m)

\* C20: with three or more control points and a cue time q with
\* s_0 <= q <= s_n, the binary search ends with adjacent indices i, i + 1
\* such that s_i <= q <= s_(i+1); the result is the interpolation between
\* the two, and every cue time that is the source s_k of a control point is
\* mapped exactly to its target t_k.
C20_BinarySearch ==
    /\ (mapCall.pc = "while" /\ ~(mapCall.maxId - mapCall.minId > 1)) =>
          /\ mapCall.maxId = mapCall.minId + 1
          /\ mapCall.sortedMappings[mapCall.minId + 1][1]
                <= nodes[mapCall.x][mapCall.field]
          /\ nodes[mapCall.x][mapCall.field]
                <= mapCall.sortedMappings[mapCall.maxId + 1][1]
    /\ (MapReturned /\ Len(mapCall.sortedMappings) >= 3) =>
          \A i \in 1..Len(nodes) : \A f \in {"appear", "disappear"} :
          \A k \in 1..Len(mapCall.sortedMappings) :
              lastOp.pre[i][f] = mapCall.sortedMappings[k][1] =>
                  nodes[i][f] = ToNumber(mapCall.sortedMappings[k][2])

\* C21: inside mapTime the table of control points used for interpolation
\* is sorted by strictly ascending source value, no two entries sharing a
\* source value, for every mapping object, also when two keys spell the same
\* time differently; so every segment used for interpolation has a width
\* that is not zero.
C21_StrictlyAscending ==
    mapCall.pc \in {"forEach", "while", "returned"} =>
        LET mappings == mapCall.sortedMappings
        IN  /\ \A i \in 1..(Len(mappings) - 1) :
                  mappings[i][1] < mappings[i + 1][1]
            /\ mapCall.pc = "while" =>
                  mappings[mapCall.minId + 1][1] < mappings[mapCall.maxId + 1][1]

----------------------------------------------------------------------------
(* A StringWalker a caller drives step by step: new StringWalker(source),  *)
(* then any sequence of expect (with a string, a RegExp or an array) and   *)
(* skipWhitespace.                                                         *)

MaxWalkLen == 3
MaxListLen == 2

WalkTexts ==
    StringsUpTo({"1", NL}, MaxWalkLen)
        \cup {<<"0", ":", "1", SP, "-", "-", ">", SP, "0", ":", "2", NL>>,
              <<"0", ":", "1", SP, "-", ">", SP, "0", ":", "2">>,
              <<"F", SP, NL, "0", ":", "1", SP, NL, "1">>}

WalkStrings == {<<NL>>, <<"1">>}

WalkRegExps ==
    {"SPACES", "DIGITS", "BREAK", "ARROW", "LINE", "OPT_NL", "TIMESTAMP"}

WalkMatchers ==
    {Literal(lit) : lit \in WalkStrings} \cup {RegExp(rx) : rx \in WalkRegExps}

ListMatchers ==
    {Literal(<<NL>>), RegExp("DIGITS"), RegExp("BREAK"), RegExp("LINE")}

\* The arrays handed to expect: every array of up to MaxListLen of the
\* matchers above, and the array of SrtParser.parseNode
WalkLists ==
    UNION {[1..k -> ListMatchers] : k \in 0..MaxListLen}
        \cup {<<RegExp("TIMESTAMP"), RegExp("ARROW"), RegExp("TIMESTAMP")>>}

WalkOp(op, arg, ret) ==
    [op |-> op, arg |-> arg, pre |-> pos, threw |-> FALSE,
     count |-> lastOp.count, ret |-> ret]

WalkInit ==
    /\ source \in WalkTexts
    /\ pos = 0
    /\ status = "walking"
    /\ pc = "loop"
    /\ node = NewNode
    /\ nodeLines = <<>>
    /\ message = <<>>
    /\ output = <<>>
    /\ DocIdle
    /\ TimeIdle

\* walker.expect(e) for a string or a RegExp e
WalkExpect ==
    /\ status = "walking"
    /\ \E e \in WalkMatchers :
       \E r \in {expect(source, pos, e)} :
          /\ pos' = r.pos
          /\ lastOp' = WalkOp("expect", e, [ok |-> r.ok, str |-> r.str])
    /\ UNCHANGED <<source, status, pc, node, nodeLines, message, output,
                   nodes, found, mapCall, tcVars>>

\* walker.expect(es) for an array es
WalkExpectList ==
    /\ status = "walking"
    /\ \E es \in WalkLists :
       \E r \in {expectList(source, pos, es)} :
          /\ pos' = r.pos
          /\ lastOp' = WalkOp("expectList", es, [ok |-> r.ok, strs |-> r.strs])
    /\ UNCHANGED <<source, status, pc, node, nodeLines, message, output,
                   nodes, found, mapCall, tcVars>>

\* walker.skipWhitespace()
WalkSkipWhitespace ==
    /\ status = "walking"
    /\ pos' = skipWhitespace(source, pos)
    /\ lastOp' = WalkOp("skipWhitespace", <<>>, <<>>)
    /\ UNCHANGED <<source, status, pc, node, nodeLines, message, output,
                   nodes, found, mapCall, tcVars>>

WalkNext == WalkExpect \/ WalkExpectList \/ WalkSkipWhitespace

SpecWalk == WalkInit /\ [][WalkNext]_vars

----------------------------------------------------------------------------
(* Properties of the StringWalker *)

\* The sum of the lengths of the first n strings of strs
RECURSIVE SumLen(_, _)
SumLen(strs, n) == IF n = 0 THEN 0 ELSE SumLen(strs, n - 1) + Len(strs[n])

\* The position of a trial walker on r after the first i matchers of es,
\* or -1 when one of them fails on the text the ones before it left
RECURSIVE TrialPos(_, _, _)
TrialPos(r, es, i) ==
    IF i = 0 THEN 0
    ELSE IF TrialPos(r, es, i - 1) < 0 THEN -1
    ELSE IF expect(r, TrialPos(r, es, i - 1), es[i]).ok
    THEN expect(r, TrialPos(r, es, i - 1), es[i]).pos
    ELSE -1

\* C17: expect with an array is all-or-nothing.  If a matcher of the array
\* fails on the text left by the matchers before it, expect returns null and
\* the position is the one before the call; if all succeed, the position
\* has advanced by the sum of the matched lengths and the strings returned
\* are, in the order of the array, what each matcher matched.
C17_AllOrNothing ==
    lastOp.op = "expectList" =>
        LET es == lastOp.arg
            r == remaining(source, lastOp.pre)
            strs == lastOp.ret.strs
        IN  IF TrialPos(r, es, Len(es)) < 0
            THEN /\ ~lastOp.ret.ok
                 /\ pos = lastOp.pre
            ELSE /\ lastOp.ret.ok
                 /\ Len(strs) = Len(es)
                 /\ pos = lastOp.pre + SumLen(strs, Len(strs))
                 /\ \A i \in 1..Len(es) :
                       strs[i] = expect(r, TrialPos(r, es, i - 1), es[i]).str

\* the array of parseNode fails at its arrow after its first timecode
\* matched: the position stays
C17_WitnessNull ==
    /\ lastOp.op = "expectList"
    /\ source = <<"0", ":", "1", SP, "-", ">", SP, "0", ":", "2">>
    /\ lastOp.arg = <<RegExp("TIMESTAMP"), RegExp("ARROW"), RegExp("TIMESTAMP")>>
    /\ ~lastOp.ret.ok
    /\ pos = 0

\* the array of parseNode matches: three strings, the position after them
C17_Witness ==
    /\ lastOp.op = "expectList"
    /\ lastOp.pre = 0
    /\ lastOp.ret.ok
    /\ lastOp.ret.strs = <<<<"0", ":", "1">>, <<SP, "-", "-", ">", SP>>,
                           <<"0", ":", "2">>>>
    /\ pos = 11

\* C23: after any sequence of matching operations on a StringWalker (expect
\* with a string, a pattern or an array, and skipWhitespace), successful or
\* not, the position is at least 0 and at most the length of the source,
\* and no operation has moved it backwards.
C23_PositionInRange ==
    /\ 0 <= pos
    /\ pos <= Len(source)
    /\ lastOp.op \in {"expect", "expectList", "skipWhitespace"} =>
          lastOp.pre <= pos

\* after an expect that advanced, skipWhitespace has run to the end of the
\* source
C23_Witness ==
    /\ source = <<"1", NL, NL>>
    /\ lastOp.op = "skipWhitespace"
    /\ lastOp.pre = 1
    /\ pos = Len(source)

\* an expect has failed in the middle of the source: the position stays
C23_WitnessNull ==
    /\ lastOp.op = "expect"
    /\ ~lastOp.ret.ok
    /\ 0 < lastOp.pre
    /\ pos = lastOp.pre
    /\ pos < Len(source)

----------------------------------------------------------------------------
(* SubRipText.fromText(src).mapTime(mappings): the parser runs to its end, *)
(* then mapTime runs on the document it returned.                          *)

RetimeDocs ==
    {<<SrtNode(1, 1000, 2000, <<"A">>)>>,
     <<SrtNode(1, 1000, 2000, <<"A", NL, "B">>),
       SrtNode(2, 3000, 4000, <<"C", NL, "D", NL, "E">>)>>,
     <<SrtNode(3, 5000, 6000, <<"C">>), SrtNode(4, 9000, 12000, <<"D">>)>>,
     <<SrtNode(6, -1000, 0, <<"F">>), SrtNode(5, 10, 17, <<"E">>)>>}

RetimeTexts ==
    {toString(d) : d \in RetimeDocs}
        \cup {<<>>, Text_F, Text_ColonMs, Text_LateId, Text_SecondCueBad,
              <<"1", NL>>, <<"1", NL, "1", ":", "F">>}

RetimeInit ==
    /\ source \in RetimeTexts
    /\ pos = 0
    /\ nodes = NoNodes
    /\ status = "parsing"
    /\ pc = "loop"
    /\ node = NewNode
    /\ nodeLines = <<>>
    /\ message = <<>>
    /\ output = <<>>
    /\ lastOp = NoOp
    /\ found = <<>>
    /\ mapCall = MapIdle
    /\ TimeIdle

\* mapTime is called on the document fromText returned
CallMapTimeOnParsed ==
    /\ status = "returned"
    /\ CallMapTime

RetimeNext ==
    \/ ParseId
    \/ ParseTimestamps
    \/ ParseLine
    \/ ParseNodeReturn
    \/ ParseReturn
    \/ CallMapTimeOnParsed
    \/ MapSwitch
    \/ MapWhile
    \/ MapInterpolate
    \/ MapTimeReturn

SpecRetime == RetimeInit /\ [][RetimeNext]_vars

----------------------------------------------------------------------------
(* Termination of the parser and of mapTime *)

\* C24: every call of SrtParser.parse and of mapTime terminates on finite
\* input, each loop having a bounded quantity that every iteration moves.
\* An iteration of the document loop throws or moves the cursor forward, an
\* iteration of the body-line loop that goes on to the next moves the
\* cursor forward, no step of the parser moves the cursor back or past the
\* end of the source, and an iteration of the binary search of mapTime
\* makes maxId - minId smaller, which stays above 0.
C24_LoopsProgress ==
    [][/\ (status = "parsing" /\ pc = "loop" /\ pos < Len(source))
            => (status' # "parsing" \/ pos' > pos)
       /\ (status = "parsing" /\ pc = "subtitle"
            /\ status' = "parsing" /\ pc' = "subtitle")
            => pos' > pos
       /\ status = "parsing" => (pos <= pos' /\ pos' <= Len(source))
       /\ (mapCall.pc = "while" /\ mapCall'.pc = "while")
            => /\ mapCall'.maxId - mapCall'.minId
                    < mapCall.maxId - mapCall.minId
               /\ mapCall'.maxId - mapCall'.minId > 0]_vars

\* mapTime with five control points has returned on a document of two cues
\* with bodies of two and three lines
C24_Witness ==
    /\ MapReturned
    /\ Len(lastOp.arg) = 5
    /\ Len(nodes) = 2
    /\ nodes[2].subtitle = <<"C", NL, "D", NL, "E">>

====
